---- MODULE Spec2Model ----
(***************************************************************************)
(* Model of the sentiment / return alignment and correlation code of       *)
(* Financial_News_Stock_Analysis:                                          *)
(*   src/src/merge_and_features.py   DataMerger                            *)
(*   src/src/correlation_analyzer.py CorrelationAnalyzer                   *)
(*   src/src/merger.py               the nearest-date merge script         *)
(* Dates are day numbers (integers), timestamps are records                *)
(* [day, hour, off, valid] (off = UTC offset in hours), floats are exact   *)
(* rationals <<n, d>> with d > 0 in lowest terms, or the string "NaN".     *)
(***************************************************************************)
EXTENDS Integers, Sequences, FiniteSets, TLC

VARIABLES
    pc,              \* position of the run
    news_df,         \* input table of news rows
    stock_df,        \* input table of price rows
    news_normalized, \* align_with_trading_days: news rows with aligned_date
    stock_normalized, \* align_with_trading_days: price rows with normalized date
    stock_returns,   \* calculate_daily_returns: price rows with daily_return
    sentiment_df,    \* input of merge_sentiment_returns: scored, aligned news rows
    daily_sentiment, \* merge_sentiment_returns: one row per (date, ticker) group
    merged_data,     \* merge_sentiment_returns: the table it returns
    merged_columns,  \* merge_sentiment_returns: the columns of that table
    printed,         \* merge_sentiment_returns: the counts it prints and logs
    analysis_df,     \* input table of calculate_correlation_metrics
    metrics,         \* what calculate_correlation_metrics returns or raises
    previous_metrics, \* what an earlier call on another table returned or raised
    correlation,     \* argument of _interpret_correlation_strength, in hundredths
    strength,        \* label returned by _interpret_correlation_strength
    news,            \* merger.py: the news table read from financial_news.csv
    stocks,          \* merger.py: the concatenated price tables
    saved            \* merger.py: the table each run of the script saved

merger_vars == <<news_df, stock_df, news_normalized, stock_normalized, stock_returns,
                 sentiment_df, daily_sentiment, merged_data, merged_columns, printed>>
analyzer_vars == <<analysis_df, metrics, previous_metrics, correlation, strength>>

script_vars == <<news, stocks, saved>>

vars == <<pc, merger_vars, analyzer_vars, script_vars>>

(***************************************************************************)
(* Bounds of the model and constants of the program                        *)
(***************************************************************************)
MaxDay == 9            \* calendar days 0..MaxDay
MaxBars == 2           \* price rows in the table given to the aligner
MaxRetDay == 2         \* dates 0..MaxRetDay of the table given to calculate_daily_returns
MaxRows == 3           \* price rows in the table given to calculate_daily_returns
MaxNews == 2           \* news rows in the table given to merge_sentiment_returns
MaxObs == 5            \* rows in the table given to calculate_correlation_metrics

LOOKAHEAD_DAYS == 7    \* merge_and_features.py:60  "Look max 7 days ahead"
LOOKBACK_DAYS == 7     \* merge_and_features.py:68
MIN_ROWS == 2          \* correlation_analyzer.py:24  "if len(clean_df) < 2"
MAX_DATE_DIFF == 30    \* merger.py:53  "if days_diff <= 30"
DEMO_DATE_DIFF == 300  \* merger.py:88  date_diff_days of a demo record
DEMO_STOCK_DATE == -1  \* merger.py:87  stands for the fixed date '2023-12-15'

Tickers == {"AAPL", "MSFT"}
Days == 0..MaxDay
NoTable == <<>>
NothingPrinted == [x \in {} |-> 0]
NoMetrics == [kind |-> "not run"]
NoLabel == "not run"

\* sorted(...) of ticker symbols, and of the sentiment categories
TickerRank(t) == IF t = "AAPL" THEN 1 ELSE 2
CategoryRank(c) == CASE c = "negative" -> 1 [] c = "neutral" -> 2 [] c = "positive" -> 3

(***************************************************************************)
(* Helpers                                                                 *)
(***************************************************************************)
Range(s) == {s[i] : i \in DOMAIN s}

Min(S) == CHOOSE x \in S : \A y \in S : x <= y

Abs(x) == IF x < 0 THEN -x ELSE x

\* floor division for any sign of a (b > 0)
FloorDiv(a, b) == IF a >= 0 THEN a \div b ELSE -((-a + b - 1) \div b)

RECURSIVE KSubsets(_, _)
KSubsets(S, k) ==
    IF k = 0 THEN {{}}
    ELSE LET smaller == KSubsets(S, k - 1)
         IN  smaller \cup {s \cup {x} : s \in smaller, x \in S}

\* the rows of a set of records as a table, ordered by (date, ticker)
RECURSIVE SetToTable(_)
SetToTable(S) ==
    IF S = {} THEN <<>>
    ELSE LET r == CHOOSE x \in S : \A y \in S :
                      \/ x.date.day < y.date.day
                      \/ x.date.day = y.date.day /\ (x.ticker = y.ticker \/ x.ticker = "AAPL")
         IN  <<r>> \o SetToTable(S \ {r})

RECURSIVE GCD(_, _)
GCD(a, b) == IF b = 0 THEN a ELSE GCD(b, a % b)

\* floats: an exact rational n/d in lowest terms (d > 0), NaN, or +/- infinity
Rat(n, d) ==
    LET g == GCD(Abs(n), Abs(d))
        sg == IF d < 0 THEN -1 ELSE 1
    IN  [kind |-> "num", n |-> sg * (n \div g), d |-> sg * (d \div g)]
NaN == [kind |-> "nan", n |-> 0, d |-> 1]
PosInf == [kind |-> "inf", n |-> 1, d |-> 1]
NegInf == [kind |-> "-inf", n |-> -1, d |-> 1]

RAdd(a, b) == Rat(a.n * b.d + b.n * a.d, a.d * b.d)
RGreater(a, b) == a.n * b.d > b.n * a.d
RLess(a, b) == a.n * b.d < b.n * a.d

RSub(a, b) == Rat(a.n * b.d - b.n * a.d, a.d * b.d)
RMul(a, b) == Rat(a.n * b.n, a.d * b.d)
RInt(k) == Rat(k, 1)
Sign(k) == IF k > 0 THEN 1 ELSE IF k < 0 THEN -1 ELSE 0

RECURSIVE RSum(_)
RSum(xs) == IF xs = <<>> THEN Rat(0, 1) ELSE RAdd(xs[1], RSum(Tail(xs)))

\* Series.mean() of a non-empty column of numbers
mean(xs) == LET t == RSum(xs) IN Rat(t.n, t.d * Len(xs))

\* the tables of at most k rows of S
RECURSIVE Tables(_, _)
Tables(S, k) ==
    IF k = 0 THEN {<<>>}
    ELSE LET shorter == Tables(S, k - 1)
         IN  shorter \cup {Append(q, r) : q \in {x \in shorter : Len(x) = k - 1}, r \in S}

\* the tables of at most k rows of S with at most one row per (ticker, date)
RECURSIVE KeyedTables(_, _)
KeyedTables(S, k) ==
    IF k = 0 THEN {<<>>}
    ELSE LET shorter == KeyedTables(S, k - 1)
             full == {q \in shorter : Len(q) = k - 1}
         IN  shorter \cup
             {Append(pr[1], pr[2]) :
                 pr \in {x \in full \X S :
                            \A j \in DOMAIN x[1] :
                                <<x[1][j].ticker, x[1][j].date>> # <<x[2].ticker, x[2].date>>}}

\* the orders (permutations of the row numbers of df) that are ascending by date
SortedOrders(df) ==
    {p \in [DOMAIN df -> DOMAIN df] :
        /\ \A i, j \in DOMAIN df : i # j => p[i] # p[j]
        /\ \A i \in DOMAIN df : i < Len(df) => df[p[i]].date <= df[p[i + 1]].date}

(***************************************************************************)
(* DataMerger.normalize_dates                                              *)
(***************************************************************************)
\* pd.to_datetime(..., errors='coerce', utc=True) then
\* tz_convert(None).normalize(): the calendar day of the instant in UTC; a
\* timestamp that does not parse (valid = FALSE) becomes NaT and its row is
\* dropped
utc_day(ts) == FloorDiv(ts.day * 24 + ts.hour - ts.off, 24)

normalize_dates(df) ==
    LET keep == SelectSeq(df, LAMBDA r : r.date.valid)
    IN  [i \in DOMAIN keep |-> [keep[i] EXCEPT !.date = utc_day(keep[i].date)]]

(***************************************************************************)
(* DataLoader.load_news_data (data_loader.py lines 109-141)                *)
(***************************************************************************)
\* the dates are parsed, rows whose date is NaT are dropped and their number
\* is printed when it is not 0, and the rows of other companies are filtered
\* out
load_news_data(raw) ==
    LET parsed == SelectSeq(raw, LAMBDA r : r.date.valid)
        removed == Len(raw) - Len(parsed)
        kept == SelectSeq(parsed, LAMBDA r : r.stock \in Tickers)
    IN  [news_data |-> kept,
         printed |-> IF removed > 0
                     THEN [removed_rows |-> removed, articles |-> Len(kept)]
                     ELSE [articles |-> Len(kept)]]

(***************************************************************************)
(* DataMerger.align_with_trading_days                                      *)
(***************************************************************************)
\* faulty variant: the loop runs while the distance is <= 7, one day too far
RECURSIVE forward_scan_wide(_, _, _)
forward_scan_wide(date, next_day, trading_days) ==
    IF next_day \notin trading_days /\ (next_day - date) <= LOOKAHEAD_DAYS
    THEN forward_scan_wide(date, next_day + 1, trading_days)
    ELSE next_day

RECURSIVE forward_scan(_, _, _)
forward_scan(date, next_day, trading_days) ==
    IF next_day \notin trading_days /\ (next_day - date) < LOOKAHEAD_DAYS
    THEN forward_scan(date, next_day + 1, trading_days)
    ELSE next_day

RECURSIVE backward_scan(_, _, _)
backward_scan(date, prev_day, trading_days) ==
    IF prev_day \notin trading_days /\ (date - prev_day) < LOOKBACK_DAYS
    THEN backward_scan(date, prev_day - 1, trading_days)
    ELSE prev_day

\* faulty variant: the "date in trading_days" shortcut is missing
map_to_trading_day_no_shortcut(date, trading_days) ==
    LET next_day == forward_scan(date, date + 1, trading_days)
    IN  IF next_day \in trading_days THEN next_day
        ELSE LET prev_day == backward_scan(date, date - 1, trading_days)
             IN  IF prev_day \in trading_days THEN prev_day ELSE date

\* faulty variant: the previous trading day is searched before the next one
map_to_trading_day_backward_first(date, trading_days) ==
    IF date \in trading_days THEN date
    ELSE LET prev_day == backward_scan(date, date - 1, trading_days)
         IN  IF prev_day \in trading_days THEN prev_day
             ELSE LET next_day == forward_scan(date, date + 1, trading_days)
                  IN  IF next_day \in trading_days THEN next_day ELSE date

map_to_trading_day(date, trading_days) ==
    IF date \in trading_days THEN date
    ELSE LET next_day == forward_scan(date, date + 1, trading_days)
         IN  IF next_day \in trading_days THEN next_day
             ELSE LET prev_day == backward_scan(date, date - 1, trading_days)
                  IN  IF prev_day \in trading_days THEN prev_day ELSE date

trading_days_of(stock_norm) == {stock_norm[i].date : i \in DOMAIN stock_norm}

align_with_trading_days(news_table, stock) ==
    LET news_norm == normalize_dates(news_table)
        stock_norm == normalize_dates(stock)
        trading_days == trading_days_of(stock_norm)
    \* the copy keeps every column of the news rows and adds aligned_date
    IN  [news  |-> [i \in DOMAIN news_norm |->
                       [aligned_date |-> map_to_trading_day(news_norm[i].date, trading_days)]
                           @@ news_norm[i]],
         stock |-> stock_norm]

(***************************************************************************)
(* DataMerger.calculate_daily_returns                                      *)
(***************************************************************************)
\* Series.pct_change(): cur / prev - 1 in floating point
pct_change(prev, cur) ==
    IF prev = 0
    THEN IF cur > 0 THEN PosInf ELSE IF cur < 0 THEN NegInf ELSE NaN
    ELSE Rat(cur - prev, prev)

times_100(x) == IF x.kind = "num" THEN Rat(100 * x.n, x.d) ELSE x

\* faulty variant: infinite returns are kept
keep_inf(x) == x

\* .replace([np.inf, -np.inf], np.nan)
replace_inf(x) == IF x.kind \in {"inf", "-inf"} THEN NaN ELSE x

\* faulty variant: the fractional change, not multiplied by 100
daily_return_at_fraction(sorted, i) ==
    IF i = 1 THEN NaN
    ELSE replace_inf(pct_change(sorted[i - 1].close, sorted[i].close))

\* the daily_return column at row i of the sorted table
daily_return_at(sorted, i) ==
    IF i = 1 THEN NaN
    ELSE replace_inf(times_100(pct_change(sorted[i - 1].close, sorted[i].close)))

\* order: the result of sort_values(date_column), one of SortedOrders(df)
calculate_daily_returns(df, order) ==
    LET sorted == [i \in DOMAIN df |-> df[order[i]]]
    IN  [i \in DOMAIN sorted |->
            [ticker |-> sorted[i].ticker, date |-> sorted[i].date, close |-> sorted[i].close,
             daily_return |-> daily_return_at(sorted, i)]]

(***************************************************************************)
(* SentimentAnalyzer.analyze_news_sentiment (the scored columns)           *)
(***************************************************************************)
\* (textblob + vader) / 2
combined_sentiment(textblob, vader) ==
    LET t == RAdd(textblob, vader) IN Rat(t.n, t.d * 2)

sentiment_category(x) ==
    IF RGreater(x, Rat(1, 10)) THEN "positive"
    ELSE IF RLess(x, Rat(-1, 10)) THEN "negative"
    ELSE "neutral"

\* lines 66-72 on a table whose rows hold the two scores of the headline
analyze_news_sentiment(df) ==
    [i \in DOMAIN df |->
        LET combined == combined_sentiment(df[i].textblob_sentiment, df[i].vader_sentiment)
        IN  [combined_sentiment |-> combined,
             sentiment_category |-> sentiment_category(combined)] @@ df[i]]

(***************************************************************************)
(* DataMerger.merge_sentiment_returns                                      *)
(***************************************************************************)
\* Series.mode()[0]: the most frequent value; mode() lists ties in sorted
\* order, so the first one is the smallest
mode_first(xs) ==
    LET count(c) == Cardinality({i \in DOMAIN xs : xs[i] = c})
        top == {c \in Range(xs) : \A o \in Range(xs) : count(o) <= count(c)}
    IN  CHOOSE c \in top : \A o \in top : CategoryRank(c) <= CategoryRank(o)

group_keys(df) == {<<df[i].aligned_date, df[i].stock>> : i \in DOMAIN df}

\* the group keys in the order groupby(...) lists them: by date, then ticker
RECURSIVE sorted_keys(_)
sorted_keys(K) ==
    IF K = {} THEN <<>>
    ELSE LET k == CHOOSE x \in K : \A y \in K :
                      \/ x[1] < y[1]
                      \/ x[1] = y[1] /\ TickerRank(x[2]) <= TickerRank(y[2])
         IN  <<k>> \o sorted_keys(K \ {k})

column(df, name) == [i \in DOMAIN df |-> df[i][name]]

\* sentiment_analyzer.py, SentimentAnalyzer.calculate_daily_sentiment:
\* groupby(['date', 'ticker']) with the mean of the two scores and the 'count'
\* of the content column, renamed article_count. 'count' counts the cells
\* that are not missing; a missing content cell is the empty string here
calculate_daily_sentiment(sentiment_results) ==
    LET keys == sorted_keys({<<sentiment_results[i].date, sentiment_results[i].ticker>> :
                                i \in DOMAIN sentiment_results})
        rows(k) == SelectSeq(sentiment_results, LAMBDA r : <<r.date, r.ticker>> = k)
    IN  [g \in DOMAIN keys |->
            [date |-> keys[g][1],
             ticker |-> keys[g][2],
             textblob_sentiment |-> mean(column(rows(keys[g]), "textblob_sentiment")),
             vader_sentiment |-> mean(column(rows(keys[g]), "vader_sentiment")),
             article_count |-> Len(SelectSeq(rows(keys[g]), LAMBDA r : r.content # ""))]]

\* faulty variant: no grouping, one sentiment row per news item
sentiment_per_item(df) ==
    [i \in DOMAIN df |->
        [date |-> df[i].aligned_date,
         ticker |-> df[i].stock,
         textblob_sentiment |-> df[i].textblob_sentiment,
         vader_sentiment |-> df[i].vader_sentiment,
         combined_sentiment |-> df[i].combined_sentiment,
         sentiment_category |-> df[i].sentiment_category]]

\* faulty variant: the groups are keyed by the publication date, so an item
\* moved to a trading day is not counted in that day's group
aggregate_by_news_date(df) ==
    LET keys == sorted_keys({<<df[i].date, df[i].stock>> : i \in DOMAIN df})
        rows(k) == SelectSeq(df, LAMBDA r : <<r.date, r.stock>> = k)
    IN  [g \in DOMAIN keys |->
            [date |-> keys[g][1],
             ticker |-> keys[g][2],
             textblob_sentiment |-> mean(column(rows(keys[g]), "textblob_sentiment")),
             vader_sentiment |-> mean(column(rows(keys[g]), "vader_sentiment")),
             combined_sentiment |-> mean(column(rows(keys[g]), "combined_sentiment")),
             sentiment_category |-> mode_first(column(rows(keys[g]), "sentiment_category"))]]

\* groupby([aligned_date, stock]).agg(...).reset_index().rename(...)
aggregate_daily_sentiment(df) ==
    LET keys == sorted_keys(group_keys(df))
        rows(k) == SelectSeq(df, LAMBDA r : <<r.aligned_date, r.stock>> = k)
    IN  [g \in DOMAIN keys |->
            [date |-> keys[g][1],
             ticker |-> keys[g][2],
             textblob_sentiment |-> mean(column(rows(keys[g]), "textblob_sentiment")),
             vader_sentiment |-> mean(column(rows(keys[g]), "vader_sentiment")),
             combined_sentiment |-> mean(column(rows(keys[g]), "combined_sentiment")),
             sentiment_category |-> mode_first(column(rows(keys[g]), "sentiment_category"))]]

merged_row(bar, s) ==
    [date |-> bar.date, ticker |-> bar.ticker, close |-> bar.close,
     daily_return |-> bar.daily_return,
     textblob_sentiment |-> s.textblob_sentiment,
     vader_sentiment |-> s.vader_sentiment,
     combined_sentiment |-> s.combined_sentiment,
     sentiment_category |-> s.sentiment_category]

\* the rows of the right table that a left row joins (keys of `right` are unique)
RECURSIVE joined_rows(_, _)
joined_rows(bar, right) ==
    IF right = <<>> THEN <<>>
    ELSE (IF right[1].date = bar.date /\ right[1].ticker = bar.ticker
          THEN <<merged_row(bar, right[1])>> ELSE <<>>)
         \o joined_rows(bar, Tail(right))

NoSentiment == [textblob_sentiment |-> NaN, vader_sentiment |-> NaN,
                combined_sentiment |-> NaN, sentiment_category |-> "NaN"]

\* faulty variant: how='left', every price row is kept
RECURSIVE merge_left(_, _)
merge_left(left, right) ==
    IF left = <<>> THEN <<>>
    ELSE (IF joined_rows(left[1], right) = <<>>
          THEN <<merged_row(left[1], NoSentiment)>>
          ELSE joined_rows(left[1], right))
         \o merge_left(Tail(left), right)

\* pd.merge(left, right, on=['date', 'ticker'], how='inner'): the rows follow
\* the order of the left table
RECURSIVE merge_inner(_, _)
merge_inner(left, right) ==
    IF left = <<>> THEN <<>>
    ELSE joined_rows(left[1], right) \o merge_inner(Tail(left), right)

\* what the function prints and logs: the number of daily sentiment records,
\* the companies of each side, the shape of the merged table and its
\* records per company
printed_by_merge(daily, stock, merged) ==
    [daily_sentiment_records |-> Len(daily),
     companies_in_sentiment |-> {daily[i].ticker : i \in DOMAIN daily},
     companies_in_stock |-> {stock[i].ticker : i \in DOMAIN stock},
     merged_rows |-> Len(merged),
     records_per_company |->
         [t \in {merged[i].ticker : i \in DOMAIN merged} |->
             Cardinality({i \in DOMAIN merged : merged[i].ticker = t})]]

\* every row of the table has the columns cols
has_columns(table, cols) == \A i \in DOMAIN table : cols \subseteq DOMAIN table[i]

\* the columns groupby(...).agg(...) looks up in sentiment_df (lines 106-110)
SENTIMENT_COLUMNS == {"aligned_date", "stock", "textblob_sentiment", "vader_sentiment",
                      "combined_sentiment", "sentiment_category"}

\* the columns looked up in stock_df (lines 120 and 126)
STOCK_COLUMNS == {"date", "ticker"}

\* the columns of the table the except branch returns (lines 141-142)
EMPTY_COLUMNS == {"date", "ticker", "close", "daily_return", "textblob_sentiment",
                  "vader_sentiment", "combined_sentiment", "sentiment_category"}

\* the columns of the aggregated sentiment after the rename (lines 106-116)
DAILY_COLUMNS == {"date", "ticker", "textblob_sentiment", "vader_sentiment",
                  "combined_sentiment", "sentiment_category"}

\* the columns of a table; an empty table is taken to have the columns the
\* function looks up
columns_of(table, expected) == IF table = <<>> THEN expected ELSE DOMAIN table[1]

\* faulty variant: the exception handler gives back the price table it was
\* given, as calculate_daily_returns does
merge_failed_returns_stock(daily, stock, shown) ==
    [daily_sentiment |-> daily, merged_data |-> stock,
     merged_columns |-> columns_of(stock, STOCK_COLUMNS), printed |-> shown]

\* the except branch (lines 138-142): an exception of the try block is logged
\* and the empty table with the expected columns is returned; shown is what
\* was printed before the failing line
merge_failed(daily, stock, shown) ==
    [daily_sentiment |-> daily, merged_data |-> <<>>,
     merged_columns |-> EMPTY_COLUMNS, printed |-> shown]

merge_sentiment_returns(sentiment, stock) ==
    IF ~ has_columns(sentiment, SENTIMENT_COLUMNS)
    \* KeyError in groupby / agg (line 106)
    THEN merge_failed(<<>>, stock, NothingPrinted)
    ELSE LET daily == aggregate_daily_sentiment(sentiment)
             merged == merge_inner(stock, daily)
         IN  IF ~ has_columns(stock, {"ticker"})
             \* KeyError in stock_df[stock_ticker_col] (line 120)
             THEN merge_failed(daily, stock,
                               [daily_sentiment_records |-> Len(daily),
                                companies_in_sentiment |->
                                    {daily[i].ticker : i \in DOMAIN daily}])
             ELSE IF ~ has_columns(stock, STOCK_COLUMNS)
             \* KeyError in pd.merge (line 123)
             THEN merge_failed(daily, stock,
                               [daily_sentiment_records |-> Len(daily),
                                companies_in_sentiment |->
                                    {daily[i].ticker : i \in DOMAIN daily},
                                companies_in_stock |->
                                    {stock[i].ticker : i \in DOMAIN stock}])
             ELSE [daily_sentiment |-> daily,
                   merged_data |-> merged,
                   merged_columns |-> columns_of(stock, STOCK_COLUMNS) \cup DAILY_COLUMNS,
                   printed |-> printed_by_merge(daily, stock, merged)]

(***************************************************************************)
(* CorrelationAnalyzer                                                     *)
(* A correlation coefficient r is held exactly as its sign and its square: *)
(* [kind |-> "num", sgn, sq] with r = sgn * sqrt(sq), or CorrNaN.          *)
(***************************************************************************)
CorrNaN == [kind |-> "nan", sgn |-> 0, sq |-> Rat(0, 1)]

\* the coefficient k/100
FromHundredths(k) == [kind |-> "num", sgn |-> Sign(k), sq |-> Rat(k * k, 10000)]

\* scipy.stats.pearsonr(xs, ys) for Len(xs) = Len(ys) >= 2: NaN when a column
\* is constant
pearsonr(xs, ys) ==
    LET n == RInt(Len(xs))
        prod(a, b) == [i \in DOMAIN a |-> RMul(a[i], b[i])]
        cov == RSub(RMul(n, RSum(prod(xs, ys))), RMul(RSum(xs), RSum(ys)))
        varx == RSub(RMul(n, RSum(prod(xs, xs))), RMul(RSum(xs), RSum(xs)))
        vary == RSub(RMul(n, RSum(prod(ys, ys))), RMul(RSum(ys), RSum(ys)))
    IN  IF varx.n = 0 \/ vary.n = 0 THEN CorrNaN
        ELSE [kind |-> "num", sgn |-> Sign(cov.n),
              sq |-> Rat(cov.n * cov.n * varx.d * vary.d,
                         cov.d * cov.d * varx.n * vary.n)]

\* the p-value pearsonr returns with the coefficient: a number in [0, 1], of
\* which only whether it is defined is kept; NaN when the coefficient is NaN
p_value(r) == [kind |-> r.kind]

\* abs(correlation) >= k/100; every comparison with NaN is False
abs_at_least(c, k) == c.kind = "num" /\ ~ RLess(c.sq, Rat(k * k, 10000))

\* faulty variant: abs() is missing, the signed coefficient is compared
at_least(c, k) == c.kind = "num" /\ c.sgn >= 0 /\ ~ RLess(c.sq, Rat(k * k, 10000))

interpret_correlation_strength_signed(c) ==
    IF at_least(c, 70) THEN "Very Strong"
    ELSE IF at_least(c, 50) THEN "Strong"
    ELSE IF at_least(c, 30) THEN "Moderate"
    ELSE IF at_least(c, 10) THEN "Weak"
    ELSE "Very Weak"

interpret_correlation_strength(c) ==
    IF abs_at_least(c, 70) THEN "Very Strong"
    ELSE IF abs_at_least(c, 50) THEN "Strong"
    ELSE IF abs_at_least(c, 30) THEN "Moderate"
    ELSE IF abs_at_least(c, 10) THEN "Weak"
    ELSE "Very Weak"

\* faulty variant: only rows without a sentiment are dropped
dropna_sentiment_only(table) ==
    SelectSeq(table, LAMBDA r : r.combined_sentiment.kind = "num")

\* df[[sentiment_col, return_col]].dropna()
dropna(table) ==
    SelectSeq(table, LAMBDA r : r.combined_sentiment.kind = "num" /\ r.daily_return.kind = "num")

\* what the call does: returns None, raises, or returns the metrics record
calculate_correlation_metrics(table) ==
    LET clean_df == dropna(table)
        sentiment_series == column(clean_df, "combined_sentiment")
        return_series == column(clean_df, "daily_return")
        n == Len(clean_df)
    IN  IF n < MIN_ROWS THEN [kind |-> "None"]
        ELSE IF n - 1 < 2
             \* pearsonr on the one-element lagged series raises
             THEN [kind |-> "raise", error |-> "ValueError"]
        ELSE LET pearson_corr == pearsonr(sentiment_series, return_series)
             IN  [kind |-> "metrics",
                  pearson_correlation |-> pearson_corr,
                  pearson_p_value |-> p_value(pearson_corr),
                  lagged_correlation |->
                      pearsonr(SubSeq(sentiment_series, 1, n - 1), SubSeq(return_series, 2, n)),
                  n_observations |-> n,
                  correlation_strength |-> interpret_correlation_strength(pearson_corr)]

(***************************************************************************)
(* merger.py, the nearest-date merge script (headline and Volume, which    *)
(* are copied through, are left out of the rows)                           *)
(***************************************************************************)
\* Series.dt.date of a timestamp column: the calendar date on the clock of the
\* timestamp's own offset (no conversion to another timezone)
dt_date(ts) == ts.day

\* lines 27-30: news['date'] and stocks['date'] become calendar dates, and
\* news['ticker'] is a copy of news['stock']
convert_dates(news_table, stock_table) ==
    [news   |-> [i \in DOMAIN news_table |->
                    [ticker |-> news_table[i].stock]
                        @@ [news_table[i] EXCEPT !.date = dt_date(news_table[i].date)]],
     stocks |-> [i \in DOMAIN stock_table |->
                    [date |-> dt_date(stock_table[i].Date)] @@ stock_table[i]]]

\* faulty variant: the first price row of the ticker, not the nearest
first_row(ticker_stocks, news_date) == 1

\* ticker_stocks.nsmallest(1, 'date_diff'): the first row with the least
\* date_diff
closest_row(ticker_stocks, news_date) ==
    LET date_diff(i) == Abs(ticker_stocks[i].date - news_date)
    IN  CHOOSE i \in DOMAIN ticker_stocks :
            /\ \A j \in DOMAIN ticker_stocks : date_diff(i) <= date_diff(j)
            /\ \A j \in DOMAIN ticker_stocks : date_diff(j) = date_diff(i) => i <= j

\* the records one news row adds to merged_data (lines 38-67): one or none
match_news_row(row, stock_table) ==
    LET ticker_stocks == SelectSeq(stock_table, LAMBDA b : b.ticker = row.ticker)
    IN  IF Len(ticker_stocks) = 0 THEN <<>>
        ELSE LET stock_row == ticker_stocks[closest_row(ticker_stocks, row.date)]
                 days_diff == Abs(stock_row.date - row.date)
             IN  IF days_diff <= MAX_DATE_DIFF
                 THEN <<[date |-> row.date, ticker |-> row.ticker,
                         sentiment |-> row.sentiment,
                         Close |-> stock_row.Close,
                         daily_return |-> Rat(stock_row.Close - stock_row.Open, stock_row.Open),
                         matched_stock_date |-> stock_row.date,
                         date_diff_days |-> days_diff]>>
                 ELSE <<>>

RECURSIVE match_all(_, _)
match_all(news_table, stock_table) ==
    IF news_table = <<>> THEN <<>>
    ELSE match_news_row(news_table[1], stock_table) \o match_all(Tail(news_table), stock_table)

\* the i-th draws of a run whose generator is in the state `seed`:
\* np.random.uniform(100, 500) and np.random.normal(0, 0.02)
random_close(seed, i) == 100 + ((seed * 173 + i * 59) % 400)
random_return(seed, i) == Rat(((seed * 7 + i * 3) % 9) - 4, 100)

\* lines 73-90: one demo record per news row
demo_data(news_table, seed) ==
    [i \in DOMAIN news_table |->
        [date |-> news_table[i].date, ticker |-> news_table[i].ticker,
         sentiment |-> news_table[i].sentiment,
         Close |-> random_close(seed, i),
         daily_return |-> random_return(seed, i),
         matched_stock_date |-> DEMO_STOCK_DATE,
         date_diff_days |-> DEMO_DATE_DIFF]]

\* the table the script saves; seed is the state of the unseeded generator
merger_script(news_table, stock_table, seed) ==
    LET converted == convert_dates(news_table, stock_table)
        merged == match_all(converted.news, converted.stocks)
    IN  IF Len(merged) = 0 THEN demo_data(converted.news, seed) ELSE merged

(***************************************************************************)
(* Inputs of the aligner                                                   *)
(***************************************************************************)
\* a timestamp at noon UTC, and one at 01:00 +05:00 (the previous day in UTC)
Stamp(d, h, o) == [day |-> d, hour |-> h, off |-> o, valid |-> TRUE]

StampsOf(d) == {Stamp(d, 12, 0), Stamp(d, 1, 5)}

AlignNewsRows == {[stock |-> t, date |-> ts] : t \in Tickers, ts \in UNION {StampsOf(d) : d \in Days}}

AlignBarRows == {[ticker |-> t, date |-> Stamp(d, 0, 0)] :
                    t \in Tickers, d \in Days}

InitAlign ==
    /\ pc = "align"
    /\ \E n \in AlignNewsRows : news_df = <<n>>
    /\ \E bars \in KSubsets(AlignBarRows, MaxBars) : stock_df = SetToTable(bars)
    /\ news_normalized = NoTable
    /\ stock_normalized = NoTable
    /\ stock_returns = NoTable
    /\ sentiment_df = NoTable
    /\ daily_sentiment = NoTable
    /\ merged_data = NoTable
    /\ merged_columns = {}
    /\ printed = NothingPrinted
    /\ analysis_df = NoTable
    /\ metrics = NoMetrics
    /\ previous_metrics = NoMetrics
    /\ correlation = 0
    /\ strength = NoLabel
    /\ news = NoTable
    /\ stocks = NoTable
    /\ saved = <<>>

AlignWithTradingDays ==
    /\ pc = "align"
    /\ LET out == align_with_trading_days(news_df, stock_df)
       IN  /\ news_normalized' = out.news
           /\ stock_normalized' = out.stock
    /\ pc' = "aligned"
    /\ UNCHANGED <<news_df, stock_df, stock_returns,
                   sentiment_df, daily_sentiment, merged_data, merged_columns, printed,
                   analyzer_vars, script_vars>>

NextAlign == AlignWithTradingDays

SpecAlign == InitAlign /\ [][NextAlign]_vars

(***************************************************************************)
(* Inputs of calculate_daily_returns                                       *)
(***************************************************************************)
Closes == {0, 99, 100, 110}

PriceRows == {[ticker |-> t, date |-> d, close |-> c] :
                 t \in Tickers, d \in 0..MaxRetDay, c \in Closes}

InitReturns ==
    /\ pc = "returns"
    /\ stock_df \in KeyedTables(PriceRows, MaxRows)
    /\ news_df = NoTable
    /\ news_normalized = NoTable
    /\ stock_normalized = NoTable
    /\ stock_returns = NoTable
    /\ sentiment_df = NoTable
    /\ daily_sentiment = NoTable
    /\ merged_data = NoTable
    /\ merged_columns = {}
    /\ printed = NothingPrinted
    /\ analysis_df = NoTable
    /\ metrics = NoMetrics
    /\ previous_metrics = NoMetrics
    /\ correlation = 0
    /\ strength = NoLabel
    /\ news = NoTable
    /\ stocks = NoTable
    /\ saved = <<>>

CalculateDailyReturns ==
    /\ pc = "returns"
    /\ \E order \in SortedOrders(stock_df) :
          stock_returns' = calculate_daily_returns(stock_df, order)
    /\ pc' = "returned"
    /\ UNCHANGED <<news_df, stock_df, news_normalized, stock_normalized,
                   sentiment_df, daily_sentiment, merged_data, merged_columns, printed,
                   analyzer_vars, script_vars>>

NextReturns == CalculateDailyReturns

SpecReturns == InitReturns /\ [][NextReturns]_vars

(***************************************************************************)
(* Inputs of merge_sentiment_returns                                       *)
(***************************************************************************)
MergeDays == {0, 1}

\* (textblob, vader) scores in hundredths: a positive, a negative and a
\* neutral item (combined 0.30, -0.20 and 0.10)
ScorePairs == {<<40, 20>>, <<-20, -20>>, <<10, 10>>}

ScoredRow(d, t, sc) ==
    LET textblob == Rat(sc[1], 100)
        vader == Rat(sc[2], 100)
    IN  [aligned_date |-> d, stock |-> t,
         textblob_sentiment |-> textblob,
         vader_sentiment |-> vader,
         combined_sentiment |-> combined_sentiment(textblob, vader),
         sentiment_category |-> sentiment_category(combined_sentiment(textblob, vader))]

ScoredRows == {ScoredRow(d, t, sc) : d \in MergeDays, t \in Tickers, sc \in ScorePairs}

ReturnRows == {[date |-> d, ticker |-> t, close |-> 100, daily_return |-> r] :
                  d \in MergeDays, t \in Tickers, r \in {NaN, Rat(10, 1)}}

InitMerge ==
    /\ pc = "merge"
    /\ sentiment_df \in Tables(ScoredRows, MaxNews)
    /\ stock_df \in KeyedTables(ReturnRows, MaxBars)
    /\ news_df = NoTable
    /\ news_normalized = NoTable
    /\ stock_normalized = NoTable
    /\ stock_returns = NoTable
    /\ daily_sentiment = NoTable
    /\ merged_data = NoTable
    /\ merged_columns = {}
    /\ printed = NothingPrinted
    /\ analysis_df = NoTable
    /\ metrics = NoMetrics
    /\ previous_metrics = NoMetrics
    /\ correlation = 0
    /\ strength = NoLabel
    /\ news = NoTable
    /\ stocks = NoTable
    /\ saved = <<>>

MergeSentimentReturns ==
    /\ pc = "merge"
    /\ LET out == merge_sentiment_returns(sentiment_df, stock_df)
       IN  /\ daily_sentiment' = out.daily_sentiment
           /\ merged_data' = out.merged_data
           /\ merged_columns' = out.merged_columns
           /\ printed' = out.printed
    /\ pc' = "merged"
    /\ UNCHANGED <<news_df, stock_df, news_normalized, stock_normalized,
                   stock_returns, sentiment_df, analyzer_vars, script_vars>>

NextMerge == MergeSentimentReturns

SpecMerge == InitMerge /\ [][NextMerge]_vars

\* merge_sentiment_returns called as test_data_merger calls it: on news rows
\* that were scored but not aligned (no aligned_date, no stock column) and on
\* price rows without a ticker column; and called on aligned rows
SampleNewsRows ==
    {[date |-> d,
      textblob_sentiment |-> Rat(sc[1], 100),
      vader_sentiment |-> Rat(sc[2], 100),
      combined_sentiment |-> combined_sentiment(Rat(sc[1], 100), Rat(sc[2], 100)),
      sentiment_category |-> sentiment_category(combined_sentiment(Rat(sc[1], 100), Rat(sc[2], 100)))] :
        d \in MergeDays, sc \in ScorePairs}

SampleStockRows == {[date |-> d, close |-> 100, daily_return |-> r] :
                       d \in MergeDays, r \in {NaN, Rat(10, 1)}}

InitMergeTest ==
    /\ pc = "merge"
    /\ \/ /\ sentiment_df \in Tables(SampleNewsRows, MaxNews) \ {<<>>}
          /\ stock_df \in Tables(SampleStockRows, MaxBars) \ {<<>>}
       \/ /\ sentiment_df \in Tables(ScoredRows, MaxNews) \ {<<>>}
          /\ stock_df \in KeyedTables(ReturnRows, MaxBars) \ {<<>>}
       \/ /\ sentiment_df \in Tables(ScoredRows, MaxNews) \ {<<>>}
          /\ stock_df \in Tables(SampleStockRows, MaxBars) \ {<<>>}
    /\ news_df = NoTable
    /\ news_normalized = NoTable
    /\ stock_normalized = NoTable
    /\ stock_returns = NoTable
    /\ daily_sentiment = NoTable
    /\ merged_data = NoTable
    /\ merged_columns = {}
    /\ printed = NothingPrinted
    /\ analysis_df = NoTable
    /\ metrics = NoMetrics
    /\ previous_metrics = NoMetrics
    /\ correlation = 0
    /\ strength = NoLabel
    /\ news = NoTable
    /\ stocks = NoTable
    /\ saved = <<>>

SpecMergeTest == InitMergeTest /\ [][NextMerge]_vars

(***************************************************************************)
(* The aligner followed by the merge: scored news rows are aligned to the  *)
(* trading days of the price rows, then grouped and joined                 *)
(***************************************************************************)
MaxPipeDay == 2        \* calendar days 0..MaxPipeDay of the pipeline inputs

PipelineNewsRows ==
    {[stock |-> t, date |-> Stamp(d, 12, 0),
      textblob_sentiment |-> Rat(sc[1], 100),
      vader_sentiment |-> Rat(sc[2], 100),
      combined_sentiment |-> combined_sentiment(Rat(sc[1], 100), Rat(sc[2], 100)),
      sentiment_category |-> sentiment_category(combined_sentiment(Rat(sc[1], 100), Rat(sc[2], 100)))] :
        t \in Tickers, d \in 0..MaxPipeDay, sc \in ScorePairs}

PipelineBarRows ==
    {[ticker |-> t, date |-> Stamp(d, 0, 0), close |-> 100, daily_return |-> Rat(10, 1)] :
        t \in Tickers, d \in 0..MaxPipeDay}

InitPipeline ==
    /\ pc = "align"
    /\ news_df \in Tables(PipelineNewsRows, MaxNews)
    /\ \E bars \in KSubsets(PipelineBarRows, MaxBars) : stock_df = SetToTable(bars)
    /\ news_normalized = NoTable
    /\ stock_normalized = NoTable
    /\ stock_returns = NoTable
    /\ sentiment_df = NoTable
    /\ daily_sentiment = NoTable
    /\ merged_data = NoTable
    /\ merged_columns = {}
    /\ printed = NothingPrinted
    /\ analysis_df = NoTable
    /\ metrics = NoMetrics
    /\ previous_metrics = NoMetrics
    /\ correlation = 0
    /\ strength = NoLabel
    /\ news = NoTable
    /\ stocks = NoTable
    /\ saved = <<>>

\* merge_sentiment_returns called on the two tables the aligner returned
MergeAligned ==
    /\ pc = "aligned"
    /\ LET out == merge_sentiment_returns(news_normalized, stock_normalized)
       IN  /\ daily_sentiment' = out.daily_sentiment
           /\ merged_data' = out.merged_data
           /\ merged_columns' = out.merged_columns
           /\ printed' = out.printed
    /\ sentiment_df' = news_normalized
    /\ pc' = "merged"
    /\ UNCHANGED <<news_df, stock_df, news_normalized, stock_normalized,
                   stock_returns, analyzer_vars, script_vars>>

NextPipeline == AlignWithTradingDays \/ MergeAligned

SpecPipeline == InitPipeline /\ [][NextPipeline]_vars

(***************************************************************************)
(* The two date conversions of the repository, on a news timestamp and a   *)
(* price timestamp: DataMerger.normalize_dates (as the aligner calls it on *)
(* both tables) and lines 27-30 of merger.py                               *)
(***************************************************************************)
MaxStampDay == 2       \* timestamps on the days 0..MaxStampDay

\* (hour, UTC offset) of the timestamps: 20:00 UTC is 01:00+05:00 of the next
\* day, and 23:00-05:00 is 04:00 UTC of the next day
ClockTimes == {<<12, 0>>, <<20, 0>>, <<1, 5>>, <<23, -5>>, <<4, 0>>}

DateStamps == {Stamp(d, c[1], c[2]) : d \in 0..MaxStampDay, c \in ClockTimes}

InitDates ==
    /\ pc = "dates"
    /\ \E t \in Tickers, tn \in DateStamps, tp \in DateStamps :
          /\ news_df = <<[stock |-> t, date |-> tn]>>
          /\ stock_df = <<[ticker |-> t, date |-> tp]>>
          /\ news = <<[stock |-> t, date |-> tn, sentiment |-> "positive"]>>
          /\ stocks = <<[ticker |-> t, Date |-> tp, Open |-> 100, Close |-> 110]>>
    /\ news_normalized = NoTable
    /\ stock_normalized = NoTable
    /\ stock_returns = NoTable
    /\ sentiment_df = NoTable
    /\ daily_sentiment = NoTable
    /\ merged_data = NoTable
    /\ merged_columns = {}
    /\ printed = NothingPrinted
    /\ analysis_df = NoTable
    /\ metrics = NoMetrics
    /\ previous_metrics = NoMetrics
    /\ correlation = 0
    /\ strength = NoLabel
    /\ saved = <<>>

\* merge_and_features.py lines 43-44
NormalizeDates ==
    /\ pc \in {"dates", "converted"}
    /\ news_normalized' = normalize_dates(news_df)
    /\ stock_normalized' = normalize_dates(stock_df)
    /\ pc' = IF pc = "dates" THEN "normalized" ELSE "normalized and converted"
    /\ UNCHANGED <<news_df, stock_df, stock_returns, sentiment_df, daily_sentiment,
                   merged_data, merged_columns, printed, analyzer_vars, script_vars>>

\* merger.py lines 27-30: the script overwrites the columns of its tables
ConvertDates ==
    /\ pc \in {"dates", "normalized"}
    /\ news' = convert_dates(news, stocks).news
    /\ stocks' = convert_dates(news, stocks).stocks
    /\ pc' = IF pc = "dates" THEN "converted" ELSE "normalized and converted"
    /\ UNCHANGED <<merger_vars, analyzer_vars, saved>>

NextDates == NormalizeDates \/ ConvertDates

SpecDates == InitDates /\ [][NextDates]_vars

(***************************************************************************)
(* Inputs of analyze_news_sentiment: the TextBlob and VADER scores of a    *)
(* headline, in hundredths                                                 *)
(***************************************************************************)
MaxScore == 20         \* scores -MaxScore..MaxScore hundredths

InitSentiment ==
    /\ pc = "score"
    /\ \E t \in Tickers, tb \in -MaxScore..MaxScore, vd \in -MaxScore..MaxScore :
          news_df = <<[stock |-> t, textblob_sentiment |-> Rat(tb, 100),
                       vader_sentiment |-> Rat(vd, 100)]>>
    /\ stock_df = NoTable
    /\ news_normalized = NoTable
    /\ stock_normalized = NoTable
    /\ stock_returns = NoTable
    /\ sentiment_df = NoTable
    /\ daily_sentiment = NoTable
    /\ merged_data = NoTable
    /\ merged_columns = {}
    /\ printed = NothingPrinted
    /\ analysis_df = NoTable
    /\ metrics = NoMetrics
    /\ previous_metrics = NoMetrics
    /\ correlation = 0
    /\ strength = NoLabel
    /\ news = NoTable
    /\ stocks = NoTable
    /\ saved = <<>>

AnalyzeNewsSentiment ==
    /\ pc = "score"
    /\ sentiment_df' = analyze_news_sentiment(news_df)
    /\ pc' = "scored"
    /\ UNCHANGED <<news_df, stock_df, news_normalized, stock_normalized, stock_returns,
                   daily_sentiment, merged_data,
                   merged_columns, printed, analyzer_vars, script_vars>>

NextSentiment == AnalyzeNewsSentiment

SpecSentiment == InitSentiment /\ [][NextSentiment]_vars

(***************************************************************************)
(* News tables with timestamps that do not parse, given to                 *)
(* DataMerger.normalize_dates and to DataLoader.load_news_data             *)
(***************************************************************************)
\* a date string that pd.to_datetime cannot parse (NaT under errors='coerce')
Unparsable == [day |-> 0, hour |-> 0, off |-> 0, valid |-> FALSE]

ParseRows == {[stock |-> t, date |-> ts] :
                 t \in Tickers \cup {"TSLA"},
                 ts \in {Stamp(0, 12, 0), Stamp(1, 1, 5), Unparsable}}

InitParse ==
    /\ pc = "parse"
    /\ news_df \in Tables(ParseRows, MaxNews)
    /\ stock_df = NoTable
    /\ news_normalized = NoTable
    /\ stock_normalized = NoTable
    /\ stock_returns = NoTable
    /\ sentiment_df = NoTable
    /\ daily_sentiment = NoTable
    /\ merged_data = NoTable
    /\ merged_columns = {}
    /\ printed = NothingPrinted
    /\ analysis_df = NoTable
    /\ metrics = NoMetrics
    /\ previous_metrics = NoMetrics
    /\ correlation = 0
    /\ strength = NoLabel
    /\ news = NoTable
    /\ stocks = NoTable
    /\ saved = <<>>

\* normalize_dates returns the table only; it prints and logs nothing
NormalizeNewsDates ==
    /\ pc = "parse"
    /\ news_normalized' = normalize_dates(news_df)
    /\ pc' = "normalized"
    /\ UNCHANGED <<news_df, stock_df, stock_normalized, stock_returns, sentiment_df,
                   daily_sentiment, merged_data,
                   merged_columns, printed, analyzer_vars, script_vars>>

LoadNewsData ==
    /\ pc = "parse"
    /\ news_normalized' = load_news_data(news_df).news_data
    /\ printed' = load_news_data(news_df).printed
    /\ pc' = "loaded"
    /\ UNCHANGED <<news_df, stock_df, stock_normalized, stock_returns, sentiment_df,
                   daily_sentiment, merged_data, merged_columns, analyzer_vars,
                   script_vars>>

NextParse == NormalizeNewsDates \/ LoadNewsData

SpecParse == InitParse /\ [][NextParse]_vars

(***************************************************************************)
(* Inputs of calculate_daily_sentiment: scored news items, of which some   *)
(* have no content                                                         *)
(***************************************************************************)
ScoredItems ==
    {[date |-> d, ticker |-> t, content |-> c,
      textblob_sentiment |-> Rat(sc[1], 100), vader_sentiment |-> Rat(sc[2], 100)] :
        d \in MergeDays, t \in Tickers, c \in {"Shares rise", ""}, sc \in ScorePairs}

InitDaily ==
    /\ pc = "aggregate"
    /\ sentiment_df \in Tables(ScoredItems, MaxNews)
    /\ news_df = NoTable
    /\ stock_df = NoTable
    /\ news_normalized = NoTable
    /\ stock_normalized = NoTable
    /\ stock_returns = NoTable
    /\ daily_sentiment = NoTable
    /\ merged_data = NoTable
    /\ merged_columns = {}
    /\ printed = NothingPrinted
    /\ analysis_df = NoTable
    /\ metrics = NoMetrics
    /\ previous_metrics = NoMetrics
    /\ correlation = 0
    /\ strength = NoLabel
    /\ news = NoTable
    /\ stocks = NoTable
    /\ saved = <<>>

CalculateDailySentiment ==
    /\ pc = "aggregate"
    /\ daily_sentiment' = calculate_daily_sentiment(sentiment_df)
    /\ pc' = "aggregated"
    /\ UNCHANGED <<news_df, stock_df, news_normalized, stock_normalized, stock_returns,
                   sentiment_df, merged_data,
                   merged_columns, printed, analyzer_vars, script_vars>>

NextDaily == CalculateDailySentiment

SpecDaily == InitDaily /\ [][NextDaily]_vars

(***************************************************************************)
(* Inputs of the correlation analyzer                                      *)
(***************************************************************************)
ObservationRows ==
    {[combined_sentiment |-> x, daily_return |-> r] :
        x \in {NaN, Rat(-1, 5), Rat(3, 10)}, r \in {NaN, Rat(0, 1), Rat(10, 1)}}

InitCorrelation ==
    /\ pc = "correlate"
    /\ analysis_df \in Tables(ObservationRows, MaxObs)
    /\ metrics = NoMetrics
    /\ previous_metrics = NoMetrics
    /\ correlation = 0
    /\ strength = NoLabel
    /\ news_df = NoTable
    /\ stock_df = NoTable
    /\ news_normalized = NoTable
    /\ stock_normalized = NoTable
    /\ stock_returns = NoTable
    /\ sentiment_df = NoTable
    /\ daily_sentiment = NoTable
    /\ merged_data = NoTable
    /\ merged_columns = {}
    /\ printed = NothingPrinted
    /\ news = NoTable
    /\ stocks = NoTable
    /\ saved = <<>>

CalculateCorrelationMetrics ==
    /\ pc = "correlate"
    /\ metrics' = calculate_correlation_metrics(analysis_df)
    /\ pc' = "correlated"
    /\ UNCHANGED <<merger_vars, analysis_df, previous_metrics, correlation, strength,
                   script_vars>>

NextCorrelation == CalculateCorrelationMetrics

SpecCorrelation == InitCorrelation /\ [][NextCorrelation]_vars

\* calculate_correlation_metrics called on a merged table, whose rows carry
\* the ticker and the trading day of each observation
MaxLagDay == 2         \* trading days 0..MaxLagDay of the merged rows
MaxLagRows == 3        \* rows of the merged table

MergedRows ==
    {[ticker |-> t, date |-> d, combined_sentiment |-> x, daily_return |-> r] :
        t \in Tickers, d \in 0..MaxLagDay,
        x \in {Rat(-1, 5), Rat(3, 10)}, r \in {Rat(0, 1), Rat(10, 1)}}

InitLagged ==
    /\ pc = "correlate"
    /\ analysis_df \in KeyedTables(MergedRows, MaxLagRows)
    /\ metrics = NoMetrics
    /\ previous_metrics = NoMetrics
    /\ correlation = 0
    /\ strength = NoLabel
    /\ news_df = NoTable
    /\ stock_df = NoTable
    /\ news_normalized = NoTable
    /\ stock_normalized = NoTable
    /\ stock_returns = NoTable
    /\ sentiment_df = NoTable
    /\ daily_sentiment = NoTable
    /\ merged_data = NoTable
    /\ merged_columns = {}
    /\ printed = NothingPrinted
    /\ news = NoTable
    /\ stocks = NoTable
    /\ saved = <<>>

SpecLagged == InitLagged /\ [][NextCorrelation]_vars

\* calculate_correlation_metrics called on a merged table and called again
\* after the rows of the other tickers were changed: the rows of AAPL stay as
\* they are, a row of MSFT is removed, added or replaced
MaxIsoDay == 1         \* trading days 0..MaxIsoDay of the merged rows

IsolationRows ==
    {[ticker |-> t, date |-> d, combined_sentiment |-> x, daily_return |-> r] :
        t \in Tickers, d \in 0..MaxIsoDay,
        x \in {Rat(-1, 5), Rat(3, 10)}, r \in {Rat(0, 1), Rat(10, 1)}}

\* the table without its row i
without_row(table, i) == SubSeq(table, 1, i - 1) \o SubSeq(table, i + 1, Len(table))

InitIsolation ==
    /\ pc = "correlate"
    /\ analysis_df \in Tables(IsolationRows, MaxLagRows)
    /\ metrics = NoMetrics
    /\ previous_metrics = NoMetrics
    /\ correlation = 0
    /\ strength = NoLabel
    /\ news_df = NoTable
    /\ stock_df = NoTable
    /\ news_normalized = NoTable
    /\ stock_normalized = NoTable
    /\ stock_returns = NoTable
    /\ sentiment_df = NoTable
    /\ daily_sentiment = NoTable
    /\ merged_data = NoTable
    /\ merged_columns = {}
    /\ printed = NothingPrinted
    /\ news = NoTable
    /\ stocks = NoTable
    /\ saved = <<>>

\* the caller keeps the first result and changes rows of the other ticker
ChangeOtherTicker ==
    /\ pc = "correlated"
    /\ previous_metrics' = metrics
    /\ \/ \E i \in DOMAIN analysis_df :
             /\ analysis_df[i].ticker = "MSFT"
             /\ analysis_df' = without_row(analysis_df, i)
       \/ \E r \in IsolationRows :
             /\ r.ticker = "MSFT"
             /\ analysis_df' = Append(analysis_df, r)
       \/ \E i \in DOMAIN analysis_df, r \in IsolationRows :
             /\ analysis_df[i].ticker = "MSFT"
             /\ r.ticker = "MSFT"
             /\ r # analysis_df[i]
             /\ analysis_df' = [analysis_df EXCEPT ![i] = r]
    /\ pc' = "changed"
    /\ UNCHANGED <<merger_vars, metrics, correlation, strength, script_vars>>

CalculateCorrelationMetricsAgain ==
    /\ pc = "changed"
    /\ metrics' = calculate_correlation_metrics(analysis_df)
    /\ pc' = "correlated again"
    /\ UNCHANGED <<merger_vars, analysis_df, previous_metrics, correlation, strength,
                   script_vars>>

NextIsolation ==
    CalculateCorrelationMetrics \/ ChangeOtherTicker \/ CalculateCorrelationMetricsAgain

SpecIsolation == InitIsolation /\ [][NextIsolation]_vars

\* _interpret_correlation_strength called on a coefficient, as the unit test does
InitStrength ==
    /\ pc = "interpret"
    /\ correlation \in -100..100
    /\ strength = NoLabel
    /\ analysis_df = NoTable
    /\ metrics = NoMetrics
    /\ previous_metrics = NoMetrics
    /\ news_df = NoTable
    /\ stock_df = NoTable
    /\ news_normalized = NoTable
    /\ stock_normalized = NoTable
    /\ stock_returns = NoTable
    /\ sentiment_df = NoTable
    /\ daily_sentiment = NoTable
    /\ merged_data = NoTable
    /\ merged_columns = {}
    /\ printed = NothingPrinted
    /\ news = NoTable
    /\ stocks = NoTable
    /\ saved = <<>>

InterpretCorrelationStrength ==
    /\ pc = "interpret"
    /\ strength' = interpret_correlation_strength(FromHundredths(correlation))
    /\ pc' = "interpreted"
    /\ UNCHANGED <<merger_vars, analysis_df, metrics, previous_metrics, correlation,
                   script_vars>>

NextStrength == InterpretCorrelationStrength

SpecStrength == InitStrength /\ [][NextStrength]_vars

(***************************************************************************)
(* Inputs and runs of merger.py                                            *)
(***************************************************************************)
\* dates 0 and 1 lie 30 and 31 days from the last one
ScriptDays == {0, 1, MAX_DATE_DIFF + 1}
Seeds == {1, 2}

\* the news file may name a company that has no price file
ScriptNewsRows == {[date |-> ts, stock |-> t, sentiment |-> "positive"] :
                      ts \in UNION {StampsOf(d) : d \in ScriptDays},
                      t \in Tickers \cup {"TSLA"}}

\* the rows a price file of ticker t may hold
ScriptPriceRows(t) == {[ticker |-> t, date |-> d, Open |-> 100, Close |-> 110] :
                          d \in ScriptDays}

\* a price file row as it is read: the day is in its Date column
raw_price_rows(table) ==
    [i \in DOMAIN table |->
        [ticker |-> table[i].ticker, Date |-> Stamp(table[i].date, 0, 0),
         Open |-> table[i].Open, Close |-> table[i].Close]]

\* lines 16-25: one price file per ticker, each with at least one row,
\* concatenated in the order of the ticker list
ScriptStockTables ==
    {raw_price_rows(a \o m) :
        a \in KeyedTables(ScriptPriceRows("AAPL"), MaxBars) \ {<<>>},
        m \in KeyedTables(ScriptPriceRows("MSFT"), MaxBars) \ {<<>>}}

InitScript ==
    /\ pc = "script"
    /\ news \in Tables(ScriptNewsRows, MaxNews)
    /\ stocks \in ScriptStockTables
    /\ saved = <<>>
    /\ news_df = NoTable
    /\ stock_df = NoTable
    /\ news_normalized = NoTable
    /\ stock_normalized = NoTable
    /\ stock_returns = NoTable
    /\ sentiment_df = NoTable
    /\ daily_sentiment = NoTable
    /\ merged_data = NoTable
    /\ merged_columns = {}
    /\ printed = NothingPrinted
    /\ analysis_df = NoTable
    /\ metrics = NoMetrics
    /\ previous_metrics = NoMetrics
    /\ correlation = 0
    /\ strength = NoLabel

\* one run of the script on the same input files; two runs are followed
RunMergerScript ==
    /\ pc = "script"
    /\ Len(saved) < 2
    /\ \E seed \in Seeds : saved' = Append(saved, merger_script(news, stocks, seed))
    /\ UNCHANGED <<pc, merger_vars, analyzer_vars, news, stocks>>

NextScript == RunMergerScript

SpecScript == InitScript /\ [][NextScript]_vars

(***************************************************************************)
(* Claims about the trading-day mapping (checked under SpecAlign)          *)
(***************************************************************************)
TradingDaysNow == trading_days_of(stock_normalized)

\* offsets k of the forward (backward) window at which a trading day lies
ForwardHits(date) == {k \in 1..LOOKAHEAD_DAYS : date + k \in TradingDaysNow}
BackwardHits(date) == {k \in 1..LOOKBACK_DAYS : date - k \in TradingDaysNow}

\* C1: a news date that is itself a trading day is mapped to itself,
\* whatever other trading days exist.
C1_TradingDayKept ==
    pc = "aligned" =>
        \A i \in DOMAIN news_normalized :
            news_normalized[i].date \in TradingDaysNow
                => news_normalized[i].aligned_date = news_normalized[i].date

C1_Witness ==
    /\ pc = "aligned"
    /\ \E i \in DOMAIN news_normalized :
          /\ news_normalized[i].date \in TradingDaysNow
          /\ news_normalized[i].date + 1 \in TradingDaysNow
          /\ news_normalized[i].aligned_date = news_normalized[i].date

\* C2: a news date that is no trading day is mapped to the first trading day
\* of the forward window; only when the forward window holds none, to the
\* nearest trading day of the backward window.
C2_ForwardThenBackward ==
    pc = "aligned" =>
        \A i \in DOMAIN news_normalized :
            LET date == news_normalized[i].date
                got == news_normalized[i].aligned_date
            IN  date \notin TradingDaysNow =>
                    /\ ForwardHits(date) # {} => got = date + Min(ForwardHits(date))
                    /\ (ForwardHits(date) = {} /\ BackwardHits(date) # {})
                          => got = date - Min(BackwardHits(date))

\* a forward match is taken although an earlier trading day is closer
C2_Witness ==
    /\ pc = "aligned"
    /\ \E i \in DOMAIN news_normalized :
          LET date == news_normalized[i].date
          IN  /\ date \notin TradingDaysNow
              /\ date - 1 \in TradingDaysNow
              /\ news_normalized[i].aligned_date >= date + 2

\* C3: a news item with no trading day in the forward window and none in the
\* backward window gets no date and is dropped: no such item is among the
\* rows the aligner returns with a date.
C3_UnmatchedItemDropped ==
    pc = "aligned" =>
        \A i \in DOMAIN news_normalized :
            LET date == news_normalized[i].date
            IN  ~ (/\ date \notin TradingDaysNow
                   /\ ForwardHits(date) = {}
                   /\ BackwardHits(date) = {})

(***************************************************************************)
(* Claims about the daily returns (checked under SpecReturns)              *)
(***************************************************************************)
OneTicker(df) == \A i, j \in DOMAIN df : df[i].ticker = df[j].ticker

\* the output holds the rows of the input, in ascending date order
OrderedByDate(out, df) ==
    /\ Len(out) = Len(df)
    /\ {[ticker |-> out[i].ticker, date |-> out[i].date, close |-> out[i].close] :
            i \in DOMAIN out} = Range(df)
    /\ \A i \in DOMAIN out : i < Len(out) => out[i].date < out[i + 1].date

\* C5 (as stated): on one ticker's series in date order the first bar has a
\* missing return and every later bar i (previous close not 0) has the
\* fraction (close[i] - close[i-1]) / close[i-1].
C5_ReturnIsFraction ==
    (pc = "returned" /\ OneTicker(stock_df)) =>
        /\ OrderedByDate(stock_returns, stock_df)
        /\ \A i \in DOMAIN stock_returns :
              IF i = 1 THEN stock_returns[i].daily_return = NaN
              ELSE stock_returns[i - 1].close # 0 =>
                      stock_returns[i].daily_return =
                          Rat(stock_returns[i].close - stock_returns[i - 1].close,
                              stock_returns[i - 1].close)

\* C5 (amended): as above, with the return in percent,
\* 100 * (close[i] - close[i-1]) / close[i-1].
C5_ReturnIsPercent ==
    (pc = "returned" /\ OneTicker(stock_df)) =>
        /\ OrderedByDate(stock_returns, stock_df)
        /\ \A i \in DOMAIN stock_returns :
              IF i = 1 THEN stock_returns[i].daily_return = NaN
              ELSE stock_returns[i - 1].close # 0 =>
                      stock_returns[i].daily_return =
                          Rat(100 * (stock_returns[i].close - stock_returns[i - 1].close),
                              stock_returns[i - 1].close)

\* closes 100, 110, 99 (given out of date order) yield NaN, 10, -10
C5_Witness ==
    /\ pc = "returned"
    /\ Len(stock_returns) = 3
    /\ stock_df[1].date > stock_df[2].date
    /\ [i \in 1..3 |-> stock_returns[i].close] = <<100, 110, 99>>
    /\ [i \in 1..3 |-> stock_returns[i].daily_return] = <<NaN, Rat(10, 1), Rat(-10, 1)>>
    /\ OneTicker(stock_df)

(***************************************************************************)
(* Claims about the merge (checked under SpecMerge)                        *)
(***************************************************************************)
\* C4: every merged record has a (ticker, date) key that is in the aggregated
\* sentiment and in the price table given to the merge, and carries the
\* values of those two rows.
C4_JoinSound ==
    pc = "merged" =>
        \A m \in DOMAIN merged_data :
            /\ \E b \in DOMAIN stock_df :
                  /\ stock_df[b].date = merged_data[m].date
                  /\ stock_df[b].ticker = merged_data[m].ticker
                  /\ stock_df[b].close = merged_data[m].close
                  /\ stock_df[b].daily_return = merged_data[m].daily_return
            /\ \E g \in DOMAIN daily_sentiment :
                  /\ daily_sentiment[g].date = merged_data[m].date
                  /\ daily_sentiment[g].ticker = merged_data[m].ticker
                  /\ daily_sentiment[g].combined_sentiment = merged_data[m].combined_sentiment
            /\ \E n \in DOMAIN sentiment_df :
                  /\ sentiment_df[n].aligned_date = merged_data[m].date
                  /\ sentiment_df[n].stock = merged_data[m].ticker

\* a merged record exists while a price row and a sentiment group are left out
C4_Witness ==
    /\ pc = "merged"
    /\ Len(merged_data) = 1
    /\ Len(stock_df) = 2
    /\ Len(daily_sentiment) = 2

\* no date of the news side is a date of the price side
DisjointDates ==
    {sentiment_df[i].aligned_date : i \in DOMAIN sentiment_df}
        \cap {stock_df[i].date : i \in DOMAIN stock_df} = {}

\* C9: when news and prices share no date, the merge returns no record and
\* reports the number of dropped sentiment-only rows and of dropped
\* return-only rows, each the full size of its input.
C9_DisjointReportsDrops ==
    (pc = "merged" /\ DisjointDates /\ sentiment_df # <<>> /\ stock_df # <<>>) =>
        /\ merged_data = <<>>
        /\ "dropped_sentiment_rows" \in DOMAIN printed
        /\ printed["dropped_sentiment_rows"] = Len(daily_sentiment)
        /\ "dropped_return_rows" \in DOMAIN printed
        /\ printed["dropped_return_rows"] = Len(stock_df)

(***************************************************************************)
(* Claims about the correlation analyzer                                   *)
(***************************************************************************)
\* C6 (SpecCorrelation): with fewer than min_samples = 5 usable records the
\* analysis ends in InsufficientDataError: it never returns a record of
\* numeric coefficients.
C6_SmallSampleRaises ==
    (pc = "correlated" /\ Len(dropna(analysis_df)) < 5) =>
        metrics.kind # "metrics"

\* C7 (SpecStrength): the label depends on |r| alone, with the thresholds
\* 0.7, 0.5, 0.3 and 0.1, so r and -r get the same label.
C7_StrengthByMagnitude ==
    pc = "interpreted" =>
        /\ strength = (IF Abs(correlation) >= 70 THEN "Very Strong"
                       ELSE IF Abs(correlation) >= 50 THEN "Strong"
                       ELSE IF Abs(correlation) >= 30 THEN "Moderate"
                       ELSE IF Abs(correlation) >= 10 THEN "Weak"
                       ELSE "Very Weak")
        /\ strength = interpret_correlation_strength(FromHundredths(-correlation))

\* the unit test's case (-0.7, "Very Strong")
C7_Witness ==
    /\ pc = "interpreted"
    /\ correlation = -70
    /\ strength = "Very Strong"

(***************************************************************************)
(* Claims about merger.py (checked under SpecScript)                       *)
(***************************************************************************)
\* C8: two runs on the same news and price inputs save the same records,
\* also when the inputs share no dates.
C8_RunsAgree ==
    Len(saved) = 2 => saved[1] = saved[2]

\* a saved record that carries the close and the open-to-close return of a
\* price row of its own ticker
FromPriceRow(rec) ==
    \E b \in DOMAIN stocks :
        /\ stocks[b].ticker = rec.ticker
        /\ dt_date(stocks[b].Date) = rec.matched_stock_date
        /\ stocks[b].Close = rec.Close
        /\ rec.daily_return = Rat(stocks[b].Close - stocks[b].Open, stocks[b].Open)

\* no news row has a price row of its ticker within the tolerance
NoOverlap ==
    match_all(convert_dates(news, stocks).news, convert_dates(news, stocks).stocks) = <<>>

\* C10: when the news and the prices do not overlap the run saves no record,
\* and no saved record ever holds a price or a return that is not taken from
\* the price data.
C10_NothingSynthetic ==
    \A r \in DOMAIN saved :
        /\ NoOverlap => saved[r] = <<>>
        /\ \A i \in DOMAIN saved[r] : FromPriceRow(saved[r][i])

\* the date column of the news rows: aligned_date when the rows were aligned
NewsDates == {(IF "aligned_date" \in DOMAIN sentiment_df[i]
               THEN sentiment_df[i].aligned_date ELSE sentiment_df[i].date) :
                 i \in DOMAIN sentiment_df}

CommonDate == \E i \in DOMAIN stock_df : stock_df[i].date \in NewsDates

\* C11: merging a news-sentiment table with a stock table that share at least
\* one date returns a non-empty table whose rows have a daily_return and a
\* combined_sentiment column
C11_CommonDateMergesNonEmpty ==
    (pc = "merged" /\ CommonDate) =>
        /\ merged_data # <<>>
        /\ has_columns(merged_data, {"daily_return", "combined_sentiment"})

\* C12: with at least 2 rows in which both analysed columns are present, the
\* call returns a metrics record (it does not return None and does not raise)
\* that holds pearson_correlation, pearson_p_value and correlation_strength
C12_TwoRowsGiveMetrics ==
    (pc = "correlated" /\ Len(dropna(analysis_df)) >= 2) =>
        /\ metrics.kind = "metrics"
        /\ {"pearson_correlation", "pearson_p_value", "correlation_strength"}
               \subseteq DOMAIN metrics

\* the news items whose aligned trading day is d for ticker t
ItemsOf(t, d) == SelectSeq(news_normalized, LAMBDA r : r.stock = t /\ r.aligned_date = d)

GroupsOf(t, d) == {g \in DOMAIN daily_sentiment :
                      daily_sentiment[g].ticker = t /\ daily_sentiment[g].date = d}

\* C13: the sentiment of a (ticker, trading day) group is the unweighted mean
\* of the scores of all news items aligned to that day for that ticker, the
\* items moved there from another day included: each such pair has one group,
\* its combined_sentiment times the number of items is the sum of the items'
\* scores, and no group is without items
C13_GroupMeanOverAlignedItems ==
    pc = "merged" =>
        /\ \A i \in DOMAIN news_normalized :
              LET t == news_normalized[i].stock
                  d == news_normalized[i].aligned_date
                  items == ItemsOf(t, d)
              IN  /\ Cardinality(GroupsOf(t, d)) = 1
                  /\ \A g \in GroupsOf(t, d) :
                        RMul(daily_sentiment[g].combined_sentiment, RInt(Len(items)))
                            = RSum(column(items, "combined_sentiment"))
        /\ \A g \in DOMAIN daily_sentiment :
              ItemsOf(daily_sentiment[g].ticker, daily_sentiment[g].date) # <<>>

\* a group of two items with different scores, one published on the trading
\* day and one moved to it
C13_Witness ==
    /\ pc = "merged"
    /\ \E i, j \in DOMAIN news_normalized :
          /\ news_normalized[i].stock = news_normalized[j].stock
          /\ news_normalized[i].aligned_date = news_normalized[j].aligned_date
          /\ news_normalized[i].date = news_normalized[i].aligned_date
          /\ news_normalized[j].date # news_normalized[j].aligned_date
          /\ news_normalized[i].combined_sentiment # news_normalized[j].combined_sentiment
          /\ \E g \in GroupsOf(news_normalized[i].stock, news_normalized[i].aligned_date) :
                daily_sentiment[g].combined_sentiment
                    \notin {news_normalized[i].combined_sentiment,
                            news_normalized[j].combined_sentiment}

\* the rows of ticker t in ascending trading-day order (one row per day)
RECURSIVE ByDay(_)
ByDay(rows) ==
    IF rows = {} THEN <<>>
    ELSE LET first == CHOOSE r \in rows : \A o \in rows : r.date <= o.date
         IN  <<first>> \o ByDay(rows \ {first})

\* the pairs (record k, record k+1) of a sequence of records
LagPairs(recs) ==
    IF Len(recs) < 2 THEN <<>>
    ELSE [k \in 1..(Len(recs) - 1) |-> <<recs[k], recs[k + 1]>>]

\* the lag pairs of every ticker's records taken in trading-day order
TickerLagPairs ==
    LagPairs(ByDay({r \in Range(dropna(analysis_df)) : r.ticker = "AAPL"}))
        \o LagPairs(ByDay({r \in Range(dropna(analysis_df)) : r.ticker = "MSFT"}))

\* C14: the lagged correlation is the correlation of (sentiment of record k,
\* return of record k+1) over the records of one ticker in ascending
\* trading-day order: a returned coefficient is the one of those pairs (the
\* records were re-sorted), a misordered table is otherwise rejected, and no
\* pair has records of two tickers
C14_LagFollowsTradingDays ==
    (pc = "correlated" /\ metrics.kind = "metrics" /\ Len(TickerLagPairs) >= 2) =>
        metrics.lagged_correlation =
            pearsonr([k \in DOMAIN TickerLagPairs |-> TickerLagPairs[k][1].combined_sentiment],
                     [k \in DOMAIN TickerLagPairs |-> TickerLagPairs[k][2].daily_return])

\* a column of the usable rows has zero variance: all its values are equal
ZeroVariance ==
    LET clean == dropna(analysis_df)
    IN  /\ Len(clean) >= 2
        /\ \/ \A i, j \in DOMAIN clean : clean[i].combined_sentiment = clean[j].combined_sentiment
           \/ \A i, j \in DOMAIN clean : clean[i].daily_return = clean[j].daily_return

StrengthLabels == {"Very Strong", "Strong", "Moderate", "Weak", "Very Weak"}

\* C15: when the sentiment series or the return series has zero variance the
\* result is a distinct "undefined" outcome: the call does not return a
\* metrics record whose coefficient is NaN or 0 or that carries a strength
\* label
C15_ZeroVarianceIsUndefined ==
    (pc = "correlated" /\ ZeroVariance /\ metrics.kind = "metrics") =>
        /\ metrics.pearson_correlation.kind = "num"
        /\ metrics.pearson_correlation.sgn # 0
        /\ metrics.correlation_strength \notin StrengthLabels

\* the instant a timestamp denotes, in hours
Instant(ts) == ts.day * 24 + ts.hour - ts.off

SameInstant == Instant(news_df[1].date) = Instant(stock_df[1].date)

\* C16: a timezone-aware timestamp is converted to one reference timezone
\* before it is truncated to a date, so a news timestamp and a price
\* timestamp that denote the same instant with different offsets get the same
\* calendar date, in DataMerger.normalize_dates and in merger.py
C16_SameInstantSameDate ==
    SameInstant =>
        /\ pc \in {"normalized", "normalized and converted"} =>
              news_normalized[1].date = stock_normalized[1].date
        /\ pc \in {"converted", "normalized and converted"} =>
              news[1].date = stocks[1].date

\* the same statement of DataMerger.normalize_dates alone
C16_NormalizeDatesAgree ==
    (SameInstant /\ pc \in {"normalized", "normalized and converted"}) =>
        news_normalized[1].date = stock_normalized[1].date

\* the table has a row dated before the row above it
DateInversion(df) == \E i \in DOMAIN df : i < Len(df) /\ df[i].date > df[i + 1].date

\* C17: a price series with a date inversion is rejected: the calculation
\* does not reorder the rows and gives no row a return value
C17_UnorderedInputRejected ==
    (pc = "returned" /\ DateInversion(stock_df)) =>
        /\ \A i \in DOMAIN stock_returns : stock_returns[i].daily_return.kind # "num"
        /\ ~ \E i \in DOMAIN stock_returns :
                /\ i <= Len(stock_df)
                /\ stock_returns[i].date # stock_df[i].date

\* C18: on one ticker's series a bar whose previous close is 0 has a missing
\* daily_return, no bar has an infinite one, and a bar whose previous close
\* is not 0 has the finite return computed from the two closes
C18_ZeroCloseGivesMissing ==
    (pc = "returned" /\ OneTicker(stock_df)) =>
        \A i \in DOMAIN stock_returns :
            /\ stock_returns[i].daily_return.kind \notin {"inf", "-inf"}
            /\ i > 1 =>
                  IF stock_returns[i - 1].close = 0
                  THEN stock_returns[i].daily_return = NaN
                  ELSE /\ stock_returns[i].daily_return.kind = "num"
                       /\ stock_returns[i].daily_return =
                              times_100(pct_change(stock_returns[i - 1].close,
                                                   stock_returns[i].close))

\* closes 0, 100, 110 of one ticker: the second bar follows a close of 0 and
\* has no return, the third has 10
C18_Witness ==
    /\ pc = "returned"
    /\ OneTicker(stock_df)
    /\ Len(stock_returns) = 3
    /\ [i \in 1..3 |-> stock_returns[i].close] = <<0, 100, 110>>
    /\ [i \in 1..3 |-> stock_returns[i].daily_return] = <<NaN, NaN, Rat(10, 1)>>

\* row i of the analysed table has both a sentiment and a return
Present(i) ==
    /\ analysis_df[i].combined_sentiment # NaN
    /\ analysis_df[i].daily_return # NaN

\* the values of a column in the rows from i on that have both values
RECURSIVE PresentFrom(_, _)
PresentFrom(i, name) ==
    IF i > Len(analysis_df) THEN <<>>
    ELSE (IF Present(i) THEN <<analysis_df[i][name]>> ELSE <<>>) \o PresentFrom(i + 1, name)

\* C19: rows with a missing return or sentiment contribute to no statistic:
\* n_observations is the number of rows that have both values, and the
\* coefficients are those of exactly these rows
C19_MissingRowsExcluded ==
    (pc = "correlated" /\ metrics.kind = "metrics") =>
        LET xs == PresentFrom(1, "combined_sentiment")
            ys == PresentFrom(1, "daily_return")
        IN  /\ metrics.n_observations = Cardinality({i \in DOMAIN analysis_df : Present(i)})
            /\ metrics.pearson_correlation = pearsonr(xs, ys)
            /\ metrics.lagged_correlation =
                   pearsonr(SubSeq(xs, 1, Len(xs) - 1), SubSeq(ys, 2, Len(ys)))

\* a table with a missing return between rows that have one, and a numeric
\* coefficient over the remaining rows
C19_Witness ==
    /\ pc = "correlated"
    /\ metrics.kind = "metrics"
    /\ \E i \in DOMAIN analysis_df :
          /\ ~ Present(i)
          /\ \E j, k \in DOMAIN analysis_df : j < i /\ i < k /\ Present(j) /\ Present(k)
    /\ metrics.n_observations < Len(analysis_df)
    /\ metrics.pearson_correlation.kind = "num"

\* the days on which ticker t has a price bar
TickerDays(t) == {stock_normalized[j].date :
                     j \in {k \in DOMAIN stock_normalized : stock_normalized[k].ticker = t}}

\* C20: the trading days used for a news item of ticker T are the days of
\* T's own price bars: a day on which only other tickers have a bar is no
\* trading day for T, so an item of T published on such a day is moved to
\* T's next bar when one lies in the forward window
C20_TradingDaysOfOwnTicker ==
    pc = "aligned" =>
        \A i \in DOMAIN news_normalized :
            LET date == news_normalized[i].date
                own == TickerDays(news_normalized[i].stock)
                ahead == {k \in 1..LOOKAHEAD_DAYS : date + k \in own}
            IN  (date \notin own /\ ahead # {}) =>
                    news_normalized[i].aligned_date = date + Min(ahead)

\* the rows of the output that are earlier bars of the ticker of row i
EarlierBars(i) == {j \in DOMAIN stock_returns :
                      /\ stock_returns[j].ticker = stock_returns[i].ticker
                      /\ stock_returns[j].date < stock_returns[i].date}

\* C21: on a table of several tickers the first bar of every ticker has a
\* missing daily_return and every other bar has the return computed from the
\* latest earlier bar of its own ticker, never from another ticker's close
C21_ReturnsPerTicker ==
    pc = "returned" =>
        \A i \in DOMAIN stock_returns :
            IF EarlierBars(i) = {} THEN stock_returns[i].daily_return = NaN
            ELSE LET prev == CHOOSE j \in EarlierBars(i) :
                                 \A k \in EarlierBars(i) :
                                     stock_returns[k].date <= stock_returns[j].date
                 IN  stock_returns[i].daily_return =
                         replace_inf(times_100(pct_change(stock_returns[prev].close,
                                                          stock_returns[i].close)))

\* C22: an item is positive when its score is >= +0.1, negative when its
\* score is <= -0.1 and neutral otherwise; a score of exactly +0.1 is
\* positive and one of exactly -0.1 negative
C22_ThresholdsInclusive ==
    pc = "scored" =>
        \A i \in DOMAIN sentiment_df :
            LET x == sentiment_df[i].combined_sentiment
            IN  sentiment_df[i].sentiment_category =
                    (IF ~ RLess(x, Rat(1, 10)) THEN "positive"
                     ELSE IF ~ RGreater(x, Rat(-1, 10)) THEN "negative"
                     ELSE "neutral")

\* the categories of the items of the group of row g of daily_sentiment
GroupCategories(g) ==
    column(SelectSeq(sentiment_df,
                     LAMBDA r : /\ r.aligned_date = daily_sentiment[g].date
                                /\ r.stock = daily_sentiment[g].ticker),
           "sentiment_category")

\* the stated priority among tied categories: positive, negative, neutral
Priority(c) == CASE c = "positive" -> 1 [] c = "negative" -> 2 [] c = "neutral" -> 3

\* C23: the category of a group is the most frequent category of its items,
\* and among categories tied for most frequent the first in the order
\* positive, negative, neutral
C23_DominantCategoryPriority ==
    pc = "merged" =>
        \A g \in DOMAIN daily_sentiment :
            LET cats == GroupCategories(g)
                count(c) == Cardinality({i \in DOMAIN cats : cats[i] = c})
                top == {c \in Range(cats) : \A o \in Range(cats) : count(o) <= count(c)}
            IN  /\ daily_sentiment[g].sentiment_category \in top
                /\ \A o \in top :
                      Priority(daily_sentiment[g].sentiment_category) <= Priority(o)

\* C24: the result for one ticker depends only on that ticker's records:
\* after records of another ticker were removed, added or changed, the call
\* gives the same outcome, coefficients, lagged correlation and
\* n_observations as before
C24_OtherTickersDoNotMatter ==
    pc = "correlated again" =>
        /\ metrics.kind = previous_metrics.kind
        /\ metrics.kind = "metrics" =>
              /\ metrics.pearson_correlation = previous_metrics.pearson_correlation
              /\ metrics.lagged_correlation = previous_metrics.lagged_correlation
              /\ metrics.n_observations = previous_metrics.n_observations

\* the rows of the input whose timestamp does not parse
UnparsedRows == {i \in DOMAIN news_df : ~ news_df[i].date.valid}

\* C25: a record whose timestamp cannot be parsed is dropped and counted: the
\* output has at most the rows that parsed, none with a substituted date, and
\* the number of dropped records is reported
C25_UnparsedDroppedAndCounted ==
    (pc \in {"normalized", "loaded"} /\ UnparsedRows # {}) =>
        /\ Len(news_normalized) <= Len(news_df) - Cardinality(UnparsedRows)
        /\ \A i \in DOMAIN news_normalized :
              \E j \in DOMAIN news_df \ UnparsedRows :
                  /\ news_df[j].stock = news_normalized[i].stock
                  /\ news_normalized[i].date \in {news_df[j].date, utc_day(news_df[j].date)}
        /\ "removed_rows" \in DOMAIN printed
        /\ printed["removed_rows"] = Cardinality(UnparsedRows)

\* the same statement of DataLoader.load_news_data alone
C25_LoaderCountsDropped ==
    (pc = "loaded" /\ UnparsedRows # {}) =>
        /\ "removed_rows" \in DOMAIN printed
        /\ printed["removed_rows"] = Cardinality(UnparsedRows)

\* the rows of daily_sentiment for ticker t and day d
DailyRows(t, d) == {g \in DOMAIN daily_sentiment :
                       daily_sentiment[g].ticker = t /\ daily_sentiment[g].date = d}

\* C26: the daily aggregation has exactly one row for each (ticker, day) with
\* at least one news item, no row for any other pair, and the article_count
\* of every row is at least 1
C26_OneRowPerPairWithItems ==
    pc = "aggregated" =>
        /\ \A t \in Tickers, d \in MergeDays :
              Cardinality(DailyRows(t, d)) =
                  (IF \E i \in DOMAIN sentiment_df :
                         sentiment_df[i].ticker = t /\ sentiment_df[i].date = d
                   THEN 1 ELSE 0)
        /\ \A g \in DOMAIN daily_sentiment : daily_sentiment[g].article_count >= 1

\* the same statement without the item count
C26_OneRowPerPair ==
    pc = "aggregated" =>
        \A t \in Tickers, d \in MergeDays :
            Cardinality(DailyRows(t, d)) =
                (IF \E i \in DOMAIN sentiment_df :
                       sentiment_df[i].ticker = t /\ sentiment_df[i].date = d
                 THEN 1 ELSE 0)

\* C27: the aligned date is the news date itself, or a trading day 1 to 7
\* days after it, or a trading day 1 to 7 days before it; it is never more
\* than 7 days away, and when it is no trading day it is the news date
C27_AlignedWithinWindow ==
    pc = "aligned" =>
        \A i \in DOMAIN news_normalized :
            LET date == news_normalized[i].date
                got == news_normalized[i].aligned_date
            IN  /\ \/ got = date
                   \/ got \in TradingDaysNow /\ got - date \in 1..7
                   \/ got \in TradingDaysNow /\ date - got \in 1..7
                /\ Abs(got - date) <= 7
                /\ got \notin TradingDaysNow => got = date

\* an item moved forward by exactly 7 days, to a trading day
C27_Witness ==
    /\ pc = "aligned"
    /\ \E i \in DOMAIN news_normalized :
          /\ news_normalized[i].aligned_date = news_normalized[i].date + 7
          /\ news_normalized[i].aligned_date \in TradingDaysNow
          /\ news_normalized[i].date \notin TradingDaysNow

\* an item with no trading day within 7 days either way keeps its date
C27_UnmatchedKeepsDate ==
    pc = "aligned" =>
        \A i \in DOMAIN news_normalized :
            (\A d \in TradingDaysNow : Abs(d - news_normalized[i].date) > 7)
                => news_normalized[i].aligned_date = news_normalized[i].date

\* a column the function looks up is absent from an input
ColumnMissing ==
    \/ ~ has_columns(sentiment_df, SENTIMENT_COLUMNS)
    \/ ~ has_columns(stock_df, STOCK_COLUMNS)

UniqueKeys(table) ==
    \A i, j \in DOMAIN table :
        (table[i].ticker = table[j].ticker /\ table[i].date = table[j].date) => i = j

\* C29: when the stock table has at most one bar per (ticker, date), the
\* merged output has at most one record per (ticker, date) and has a record
\* for every key that is in the aggregated sentiment and in the stock table
C29_OneRecordPerKey ==
    (pc = "merged" /\ UniqueKeys(stock_df)) =>
        /\ UniqueKeys(merged_data)
        /\ \A b \in DOMAIN stock_df, g \in DOMAIN daily_sentiment :
              (stock_df[b].ticker = daily_sentiment[g].ticker
                  /\ stock_df[b].date = daily_sentiment[g].date) =>
                  \E m \in DOMAIN merged_data :
                      /\ merged_data[m].ticker = stock_df[b].ticker
                      /\ merged_data[m].date = stock_df[b].date

\* two news items of one (ticker, day) and two bars, one of them of that
\* key: one record
C29_Witness ==
    /\ pc = "merged"
    /\ Len(stock_df) = 2
    /\ Len(sentiment_df) = 2
    /\ sentiment_df[1].aligned_date = sentiment_df[2].aligned_date
    /\ sentiment_df[1].stock = sentiment_df[2].stock
    /\ Len(merged_data) = 1

\* every bar has news: as many records as bars
C29_AllBarsMerged ==
    /\ pc = "merged"
    /\ Len(stock_df) = 2
    /\ Len(merged_data) = 2

\* the price rows of the ticker of news item i, and the least distance in
\* days between the item and one of them
OwnBars(i) == {b \in DOMAIN stocks : stocks[b].ticker = news[i].stock}

Distance(i, b) == Abs(dt_date(stocks[b].Date) - dt_date(news[i].date))

Nearest(i) == Min({Distance(i, b) : b \in OwnBars(i)})

\* the news items that have a price row of their ticker at most 30 days away,
\* in the order of the news table
MatchedItems ==
    SelectSeq([i \in DOMAIN news |-> i],
              LAMBDA i : OwnBars(i) # {} /\ Nearest(i) <= 30)

\* C30: in the matching loop of merger.py every news item is matched to a
\* price bar of its own ticker at the least absolute distance in days, past
\* or future; the match is kept only when the distance is at most 30 days;
\* each news item yields at most one record
C30_NearestBarWithinThirtyDays ==
    \A r \in DOMAIN saved :
        MatchedItems # <<>> =>
            /\ Len(saved[r]) = Len(MatchedItems)
            /\ \A k \in DOMAIN saved[r] :
                  LET rec == saved[r][k]
                      i == MatchedItems[k]
                  IN  /\ rec.ticker = news[i].stock
                      /\ rec.date = dt_date(news[i].date)
                      /\ rec.date_diff_days = Nearest(i)
                      /\ rec.date_diff_days <= 30
                      /\ \E b \in OwnBars(i) :
                            /\ Distance(i, b) = Nearest(i)
                            /\ rec.matched_stock_date = dt_date(stocks[b].Date)
                            /\ rec.Close = stocks[b].Close

\* of two news items of one ticker, one is matched to a later bar exactly 30
\* days away although an earlier row of the price table is farther, and the
\* other, 31 days from every bar, yields no record
C30_Witness ==
    /\ Len(saved) >= 1
    /\ Len(news) = 2
    /\ Len(saved[1]) = 1
    /\ saved[1][1].date_diff_days = 30
    /\ saved[1][1].matched_stock_date > saved[1][1].date
    /\ \E i \in DOMAIN news : OwnBars(i) # {} /\ Nearest(i) > 30

====
